---- MODULE Spec2Model ----
(***************************************************************************)
(* Model of GeneralPurposeSlime (src/src/main.rs): the bootstrap `main`,   *)
(* the tracing filter set up by `init_tracing`, and the event handler      *)
(* `Handler` (methods `message` and `ready`).                              *)
(*                                                                         *)
(* The gateway client library is the environment: it answers               *)
(* Client::builder(..).await and client.start().await, delivers events,    *)
(* and runs one task per delivered event on its thread pool when an event  *)
(* handler is installed on the client.                                     *)
(*                                                                         *)
(* Two specifications:                                                     *)
(*   Spec         main exactly as written: `.event_handler(Handler)` is    *)
(*                commented out (main.rs:102), so the client is built      *)
(*                without a handler.                                       *)
(*   SpecHandler  the same main with Handler installed on the client, used *)
(*                for the properties of Handler::message / Handler::ready  *)
(*                themselves.                                              *)
(***************************************************************************)
EXTENDS Integers, Sequences, FiniteSets

VARIABLES
    build,          \* cfg!(debug_assertions): "debug" or "release"
    env,            \* the process environment's DISCORD_TOKEN entry
    pc,             \* main's position
    max_level,      \* the subscriber's max level ("OFF" before init_tracing)
    log,            \* lines emitted through tracing
    token,          \* main's local `token`
    client,         \* result of Client::builder(..).await
    handler,        \* event handler installed on the client
    builder_called, \* Client::builder(..).await was attempted
    start_called,   \* client.start() was attempted
    start_result,   \* result of client.start().await
    outcome,        \* main's return value
    delivered,      \* events delivered by the gateway, in arrival order
    tasks,          \* per delivered event: the state of its handler task
    effects         \* handler side effects (say calls, println lines), in order

vars == <<build, env, pc, max_level, log, token, client, handler, builder_called,
          start_called, start_result, outcome, delivered, tasks, effects>>

(* ------------------------------ bounds -------------------------------- *)

MaxEvents == 2

(* ------------------------------ inputs -------------------------------- *)

Builds == {"debug", "release"}

EnvValues ==
    { [kind |-> "unset"],
      [kind |-> "not_unicode", raw |-> "raw-bytes"],
      [kind |-> "text", val |-> ""],
      [kind |-> "text", val |-> "tokA"] }

Channels == {1, 2}

Texts == {"!ping", "!Ping", " !ping", "!ping "}

Names == {"slime"}

Events ==
    [kind : {"message"}, content : Texts, channel_id : Channels]
    \cup [kind : {"ready"}, name : Names]

(* ------------------------------ tracing ------------------------------- *)

Rank(level) ==
    CASE level = "OFF"   -> 0
      [] level = "ERROR" -> 1
      [] level = "WARN"  -> 2
      [] level = "INFO"  -> 3
      [] level = "DEBUG" -> 4
      [] level = "TRACE" -> 5

\* a line passes the subscriber iff it is at most as verbose as the max level
Enabled(level, max) == Rank(level) <= Rank(max)

Emit(lg, max, line) == IF Enabled(line.level, max) THEN Append(lg, line) ELSE lg

LevelForAlwaysDebug(b) == "DEBUG"

\* let level = if cfg!(debug_assertions) { Level::DEBUG } else { Level::INFO };
LevelFor(b) == IF b = "debug" THEN "DEBUG" ELSE "INFO"

(* ------------------------------ values -------------------------------- *)

None == [some |-> FALSE]
Some(v) == [some |-> TRUE, val |-> v]

\* std::env::var: Ok(text) when set and valid Unicode (the empty string
\* included), Err(NotPresent) when unset, Err(NotUnicode(raw)) otherwise
EnvVar(e) ==
    CASE e.kind = "text"        -> [ok |-> TRUE, val |-> e.val]
      [] e.kind = "unset"       -> [ok |-> FALSE, err |-> "NotPresent"]
      [] e.kind = "not_unicode" -> [ok |-> FALSE, err |-> e.raw]

\* GUILD_MESSAGES | DIRECT_MESSAGES | MESSAGE_CONTENT, as {intents:?} prints it
Intents == "GUILD_MESSAGES | DIRECT_MESSAGES | MESSAGE_CONTENT"

(* ------------------------------- main --------------------------------- *)

Init ==
    /\ build \in Builds
    /\ env \in EnvValues
    /\ pc = "init"
    /\ max_level = "OFF"
    /\ log = <<>>
    /\ token = None
    /\ client = "none"
    /\ handler = "none"
    /\ builder_called = FALSE
    /\ start_called = FALSE
    /\ start_result = "none"
    /\ outcome = "none"
    /\ delivered = <<>>
    /\ tasks = <<>>
    /\ effects = <<>>

\* main.rs:73-81: pick the level, install the subscriber, first trace! line
InitTracing ==
    /\ pc = "init"
    /\ max_level' = LevelFor(build)
    /\ log' = Emit(log, max_level',
                   [level |-> "TRACE", msg |-> "Beginning everything", args |-> <<>>])
    /\ pc' = "read_token"
    /\ UNCHANGED <<build, env, token, client, handler, builder_called, start_called,
                   start_result, outcome, delivered, tasks, effects>>

\* main.rs:84-88, 95-99: Ok(token) branch, then the intents and their trace! line
ReadTokenOk ==
    /\ pc = "read_token"
    /\ EnvVar(env).ok
    /\ token' = Some(EnvVar(env).val)
    /\ log' = Emit(Emit(log, max_level,
                        [level |-> "DEBUG", msg |-> "Here's your token",
                         args |-> <<EnvVar(env).val>>]),
                   max_level,
                   [level |-> "TRACE", msg |-> "Intent selected", args |-> <<Intents>>])
    /\ pc' = "build"
    /\ UNCHANGED <<build, env, max_level, client, handler, builder_called, start_called,
                   start_result, outcome, delivered, tasks, effects>>

ReadTokenErrContinues ==
    /\ pc = "read_token"
    /\ ~EnvVar(env).ok
    /\ log' = Emit(log, max_level,
                   [level |-> "ERROR", msg |-> "Couldn't retrieve the token",
                    args |-> <<EnvVar(env).err>>])
    /\ token' = Some("")
    /\ pc' = "build"
    /\ UNCHANGED <<build, env, max_level, client, handler, builder_called, start_called,
                   start_result, outcome, delivered, tasks, effects>>

\* main.rs:89-92: Err(l_error) branch: error! line, return Err(SlimeError::Var)
ReadTokenErr ==
    /\ pc = "read_token"
    /\ ~EnvVar(env).ok
    /\ log' = Emit(log, max_level,
                   [level |-> "ERROR", msg |-> "Couldn't retrieve the token",
                    args |-> <<EnvVar(env).err>>])
    /\ outcome' = "Err_Var"
    /\ pc' = "done"
    /\ UNCHANGED <<build, env, max_level, token, client, handler, builder_called,
                   start_called, start_result, delivered, tasks, effects>>

\* main.rs:101-104, 115: the builder answers Ok(client); h is the handler the
\* builder was given; main goes on to client.start().await
BuildOk(h) ==
    /\ pc = "build"
    /\ builder_called' = TRUE
    /\ client' = "built"
    /\ handler' = h
    /\ start_called' = TRUE
    /\ start_result' = "pending"
    /\ pc' = "running"
    /\ UNCHANGED <<build, env, max_level, log, token, outcome, delivered, tasks, effects>>

\* main as written: `// .event_handler(Handler)` (main.rs:102), no handler
BuildClientOk == BuildOk("none")

\* main with the event_handler call of main.rs:102 in effect
BuildClientWithHandlerOk == BuildOk("Handler")

BuildClientErrContinues ==
    /\ pc = "build"
    /\ builder_called' = TRUE
    /\ client' = "failed"
    /\ log' = Emit(log, max_level,
                   [level |-> "ERROR", msg |-> "Error occurred while creating client",
                    args |-> <<"build-error">>])
    /\ start_called' = TRUE
    /\ start_result' = "pending"
    /\ pc' = "running"
    /\ UNCHANGED <<build, env, max_level, token, handler, outcome, delivered, tasks,
                   effects>>

\* main.rs:105-108: the builder answers Err: error! line, return Err(SlimeError::Serenity)
BuildClientErr ==
    /\ pc = "build"
    /\ builder_called' = TRUE
    /\ client' = "failed"
    /\ log' = Emit(log, max_level,
                   [level |-> "ERROR", msg |-> "Error occurred while creating client",
                    args |-> <<"build-error">>])
    /\ outcome' = "Err_Serenity"
    /\ pc' = "done"
    /\ UNCHANGED <<build, env, max_level, token, handler, start_called, start_result,
                   delivered, tasks, effects>>

StartReturnsPropagates(r) ==
    /\ pc = "running"
    /\ start_result' = r
    /\ log' = IF r = "err"
              THEN Emit(log, max_level,
                        [level |-> "ERROR", msg |-> "Client error", args |-> <<"why">>])
              ELSE log
    /\ outcome' = IF r = "err" THEN "Err_Serenity" ELSE "Ok"
    /\ pc' = "done"
    /\ UNCHANGED <<build, env, max_level, token, client, handler, builder_called,
                   start_called, delivered, tasks, effects>>

\* main.rs:115-119: client.start().await returns r; an Err is logged; Ok(())
StartReturns(r) ==
    /\ pc = "running"
    /\ start_result' = r
    /\ log' = IF r = "err"
              THEN Emit(log, max_level,
                        [level |-> "ERROR", msg |-> "Client error", args |-> <<"why">>])
              ELSE log
    /\ outcome' = "Ok"
    /\ pc' = "done"
    /\ UNCHANGED <<build, env, max_level, token, client, handler, builder_called,
                   start_called, delivered, tasks, effects>>

StartReturnsOk == StartReturns("ok")
StartReturnsErr == StartReturns("err")

(* ------------------------ the library's dispatch ---------------------- *)

\* While the loop started at main.rs:115 runs, the gateway delivers event e.
\* With a handler installed the library spawns a task for it; with none
\* (main.rs:102) the event is dropped.
Deliver(e) ==
    /\ pc = "running"
    /\ Len(delivered) < MaxEvents
    /\ delivered' = Append(delivered, e)
    /\ tasks' = Append(tasks, IF handler = "Handler" THEN "spawned" ELSE "dropped")
    /\ UNCHANGED <<build, env, pc, max_level, log, token, client, handler,
                   builder_called, start_called, start_result, outcome, effects>>

DeliverEvent == \E e \in Events : Deliver(e)

(* ------------------------------ Handler ------------------------------- *)

IsPingIgnoreCase(content) == content \in {"!ping", "!Ping", "!PING"}

\* if msg.content == "!ping"
IsPing(content) == content = "!ping"

\* the channel of the most recently delivered message, as a handler keeping
\* the "current" channel in shared state would use
ReplyChannelShared(i) ==
    LET msgs == {j \in DOMAIN delivered : delivered[j].kind = "message"}
        last == CHOOSE j \in msgs : \A k \in msgs : k <= j
    IN  delivered[last].channel_id

\* msg.channel_id of the handled message
ReplyChannel(i) == delivered[i].channel_id

SayCall(i) == [kind |-> "say", ev |-> i, channel |-> ReplyChannel(i), body |-> "Pong!"]

\* main.rs:22-28: the task of message i runs up to the await of say(..)
MessageBegin(i) ==
    /\ pc = "running"
    /\ i \in DOMAIN tasks
    /\ tasks[i] = "spawned"
    /\ delivered[i].kind = "message"
    /\ IF IsPing(delivered[i].content)
       THEN /\ effects' = Append(effects, SayCall(i))
            /\ tasks' = [tasks EXCEPT ![i] = "say"]
       ELSE /\ effects' = effects
            /\ tasks' = [tasks EXCEPT ![i] = "done"]
    /\ UNCHANGED <<build, env, pc, max_level, log, token, client, handler,
                   builder_called, start_called, start_result, outcome, delivered>>

\* main.rs:28: say(..).await returns Ok
MessageSayOk(i) ==
    /\ pc = "running"
    /\ i \in DOMAIN tasks
    /\ tasks[i] = "say"
    /\ tasks' = [tasks EXCEPT ![i] = "done"]
    /\ UNCHANGED <<build, env, pc, max_level, log, token, client, handler,
                   builder_called, start_called, start_result, outcome, delivered,
                   effects>>

MessageSayErrPropagates(i) ==
    /\ pc = "running"
    /\ i \in DOMAIN tasks
    /\ tasks[i] = "say"
    /\ tasks' = [tasks EXCEPT ![i] = "done"]
    /\ effects' = Append(effects, [kind |-> "println", ev |-> i,
                                   line |-> <<"Error sending message: ", "why">>])
    /\ start_result' = "err"
    /\ outcome' = "Err_Serenity"
    /\ pc' = "done"
    /\ UNCHANGED <<build, env, max_level, log, token, client, handler,
                   builder_called, start_called, delivered>>

\* main.rs:28-30: say(..).await returns Err(why): println!, nothing else
MessageSayErr(i) ==
    /\ pc = "running"
    /\ i \in DOMAIN tasks
    /\ tasks[i] = "say"
    /\ tasks' = [tasks EXCEPT ![i] = "done"]
    /\ effects' = Append(effects, [kind |-> "println", ev |-> i,
                                   line |-> <<"Error sending message: ", "why">>])
    /\ UNCHANGED <<build, env, pc, max_level, log, token, client, handler,
                   builder_called, start_called, start_result, outcome, delivered>>

\* main.rs:40-42: println!("{} is connected!", ready.user.name)
ReadyHandler(i) ==
    /\ pc = "running"
    /\ i \in DOMAIN tasks
    /\ tasks[i] = "spawned"
    /\ delivered[i].kind = "ready"
    /\ tasks' = [tasks EXCEPT ![i] = "done"]
    /\ effects' = Append(effects, [kind |-> "println", ev |-> i,
                                   line |-> <<delivered[i].name, " is connected!">>])
    /\ UNCHANGED <<build, env, pc, max_level, log, token, client, handler,
                   builder_called, start_called, start_result, outcome, delivered>>

HandleMessageBegin == \E i \in 1..MaxEvents : MessageBegin(i)
HandleMessageSayOk == \E i \in 1..MaxEvents : MessageSayOk(i)
HandleMessageSayErr == \E i \in 1..MaxEvents : MessageSayErr(i)
HandleReady == \E i \in 1..MaxEvents : ReadyHandler(i)

(* --------------------------- specifications --------------------------- *)

Next ==
    \/ InitTracing
    \/ ReadTokenOk
    \/ ReadTokenErr
    \/ BuildClientOk
    \/ BuildClientErr
    \/ DeliverEvent
    \/ StartReturnsOk
    \/ StartReturnsErr

Spec == Init /\ [][Next]_vars

NextHandler ==
    \/ InitTracing
    \/ ReadTokenOk
    \/ ReadTokenErr
    \/ BuildClientWithHandlerOk
    \/ BuildClientErr
    \/ DeliverEvent
    \/ HandleMessageBegin
    \/ HandleMessageSayOk
    \/ HandleMessageSayErr
    \/ HandleReady
    \/ StartReturnsOk
    \/ StartReturnsErr

SpecHandler == Init /\ [][NextHandler]_vars

(* ------------------------- derived observations ----------------------- *)

\* positions in effects of the say calls made for event i
SayIdx(i) == {k \in DOMAIN effects : effects[k].kind = "say" /\ effects[k].ev = i}

\* positions in effects of all say calls
Says == {k \in DOMAIN effects : effects[k].kind = "say"}

\* the library is finished with event i: its task ran to the end, or the event
\* was dropped for want of a handler
Handled(i) == tasks[i] \in {"done", "dropped"}

AllDone == \A i \in DOMAIN tasks : tasks[i] = "done"

PingEvents ==
    {i \in DOMAIN delivered :
        delivered[i].kind = "message" /\ delivered[i].content = "!ping"}

TokenLines == {k \in DOMAIN log : log[k].msg = "Here's your token"}

\* log lines one of whose arguments is the token main read
LinesWithToken ==
    {k \in DOMAIN log :
        token.some /\ \E a \in DOMAIN log[k].args : log[k].args[a] = token.val}

\* a step in which an awaited say(..) returned Err to its handler task
SayFailedStep ==
    \E i \in DOMAIN tasks :
        /\ tasks[i] = "say"
        /\ tasks'[i] = "done"
        /\ Len(effects') = Len(effects) + 1

ErrorLines ==
    {k \in DOMAIN effects :
        effects[k].kind = "println" /\ effects[k].line[1] = "Error sending message: "}

(* ------------------------------- claims ------------------------------- *)

\* C1: in a run of main as written, for every message event the library is
\* finished with, a "Pong!" was sent for it if and only if its text is
\* exactly "!ping".
C1_PongIffPing ==
    \A i \in DOMAIN delivered :
        (delivered[i].kind = "message" /\ Handled(i))
            => ((delivered[i].content = "!ping")
                    <=> (\E k \in SayIdx(i) : effects[k].body = "Pong!"))

\* C2: once client.start() has been called the handler is installed on the
\* client, and every delivered event was handed to the handler.
C2_HandlerInvoked ==
    /\ start_called => handler = "Handler"
    /\ \A i \in DOMAIN delivered : tasks[i] # "dropped"

\* C3 as stated: with DISCORD_TOKEN unset or set to the empty string, neither
\* the client builder nor client.start() is ever attempted and main ends with
\* SlimeError::Var.
C3_UnsetOrEmptyIsVarError ==
    (env.kind = "unset" \/ (env.kind = "text" /\ env.val = ""))
        => /\ ~builder_called
           /\ ~start_called
           /\ pc = "done" => outcome = "Err_Var"

\* C3 amended: with DISCORD_TOKEN unset or not valid Unicode, neither the
\* client builder nor client.start() is ever attempted and main ends with
\* SlimeError::Var.
C3_UnsetOrNotUnicodeIsVarError ==
    (env.kind \in {"unset", "not_unicode"})
        => /\ ~builder_called
           /\ ~start_called
           /\ token = None
           /\ pc = "done" => outcome = "Err_Var"

C3_Witness ==
    /\ env.kind = "unset"
    /\ pc = "done"
    /\ outcome = "Err_Var"
    /\ ~builder_called

\* C4: when the token was read and the client builder failed, main returns
\* SlimeError::Serenity and client.start() is never called.
C4_BuildFailureIsSerenityError ==
    client = "failed"
        => /\ token.some
           /\ ~start_called
           /\ start_result = "none"
           /\ pc = "done"
           /\ outcome = "Err_Serenity"

C4_Witness ==
    /\ client = "failed"
    /\ token.some
    /\ pc = "done"
    /\ outcome = "Err_Serenity"

\* C5: when main has returned, its outcome is Ok whenever client.start() was
\* called, whatever start() returned; the outcome is an error if and only if
\* the token read failed or the client builder failed.
C5_StartErrorNotPropagated ==
    pc = "done"
        => /\ start_called => outcome = "Ok"
           /\ (outcome # "Ok") <=> (~token.some \/ client = "failed")
           /\ (outcome = "Err_Var") <=> ~token.some
           /\ (outcome = "Err_Serenity") <=> client = "failed"

C5_Witness ==
    /\ pc = "done"
    /\ start_result = "err"
    /\ outcome = "Ok"

C8_TokenOnlyInDebugLog ==
    /\ build = "release" => LinesWithToken = {} /\ TokenLines = {}
    /\ \A k \in TokenLines \cup LinesWithToken :
          /\ build = "debug"
          /\ log[k].level = "DEBUG"
          /\ EnvVar(env).ok
          /\ token = Some(EnvVar(env).val)
          /\ log[k].args = <<token.val>>

\* a release build that read a token and has emitted a log line
C8_Witness ==
    /\ build = "release"
    /\ token = Some("tokA")
    /\ log # <<>>

C10_ReadyLinePrinted ==
    \A i \in DOMAIN delivered :
        (delivered[i].kind = "ready" /\ Handled(i))
            => \E k \in DOMAIN effects :
                  effects[k] = [kind |-> "println", ev |-> i,
                                line |-> <<delivered[i].name, " is connected!">>]

====
